---- MODULE Spec2Model ----
(***************************************************************************)
(* A model of magicavoxel::VoxFile (vox_file.h / vox_file.cpp): the loader *)
(* of MagicaVoxel .vox files.  The model follows the source operation by   *)
(* operation: the std::ifstream the loader reads from, the chunk reader    *)
(* with its MAIN-chunk child loop, the SIZE / XYZI / RGBA handlers, the    *)
(* hidden-voxel removal and the palette stamp at the end of Load.          *)
(***************************************************************************)
EXTENDS Integers, Sequences, FiniteSets, TLC

VARIABLES
  disk,                    \* the files the paths name, each a sequence of bytes
  load_dense_,             \* VoxFile::load_dense_
  load_sparse_,            \* VoxFile::load_sparse_
  remove_hidden_voxels_,   \* VoxFile::remove_hidden_voxels_
  cur_size_,               \* VoxFile::cur_size_, <<x, y, z>>
  palette_,                \* VoxFile::palette_, a function 0..255 -> Color
  dense_models_,           \* VoxFile::dense_models_
  sparse_models_,          \* VoxFile::sparse_models_
  path,                    \* the argument of the last Load call
  file,                    \* the std::ifstream local to Load: position and failbit
  buffers,                 \* what the uninitialised read buffers hold during this Load
  stack,                   \* the active ReadMainChunk calls, innermost last
  pc,                      \* where the running Load is: "idle", "chunk", "loop", "stamp"
  result,                  \* how the last Load ended
  loads,                   \* number of Load calls made on the instance
  calls                    \* parity of the number of ReadChunk calls made

vars == <<disk, load_dense_, load_sparse_, remove_hidden_voxels_, cur_size_, palette_,
          dense_models_, sparse_models_, path, file, buffers, stack, pc, result, loads, calls>>

(***************************************************************************)
(* Bounds of the model.                                                    *)
(***************************************************************************)
\* Load calls made on one instance.
MaxLoads == 2
\* Nesting depth of MAIN chunks that is followed.
MaxDepth == 2
\* Models that one collection may hold.
MaxModels == 2

(***************************************************************************)
(* Integers.  uint32_t values and stream offsets are kept as <<hi, lo>>    *)
(* with value hi * 2^16 + lo and lo in 0 .. 2^16 - 1; hi is negative only  *)
(* for the offset -1 that tellg() reports on a failed stream.              *)
(***************************************************************************)
Limb == 256 * 256

Wide(n) == <<n \div Limb, n % Limb>>

WAdd(a, b) ==
  LET s == a[2] + b[2] IN <<a[1] + b[1] + (s \div Limb), s % Limb>>

WLess(a, b) == a[1] < b[1] \/ (a[1] = b[1] /\ a[2] < b[2])

\* static_cast<uint32_t>(v): v modulo 2^32
U32(a) == <<a[1] % Limb, a[2]>>

\* the value as a plain integer (the inputs of the model keep counts and
\* extents below 2^31)
Num(a) == a[1] * Limb + a[2]

Byte == 0 .. 255

(***************************************************************************)
(* Four-character ids.                                                     *)
(***************************************************************************)
VOX  == <<86, 79, 88, 32>>
MAIN == <<77, 65, 73, 78>>
SIZE == <<83, 73, 90, 69>>
XYZI == <<88, 89, 90, 73>>
RGBA == <<82, 71, 66, 65>>
PACK == <<80, 65, 67, 75>>
NoId == <<0, 0, 0, 0>>

(***************************************************************************)
(* Color and Palette (vox_file.h).                                         *)
(***************************************************************************)
\* Color(uint32_t val): r, g, b, a are the bytes of val, lowest first.
Color(val) == <<val[2] % 256, val[2] \div 256, val[1] % 256, val[1] \div 256>>

\* The 256 initialisers of kDefaultPalette, as <<hi, lo>> 16-bit halves.
kDefaultPaletteWords ==
  <<
     <<65535, 65535>>, <<65535, 65484>>, <<65535, 65433>>, <<65535, 65382>>,
     <<65535, 65331>>, <<65535, 65280>>, <<65535, 52479>>, <<65535, 52428>>,
     <<65535, 52377>>, <<65535, 52326>>, <<65535, 52275>>, <<65535, 52224>>,
     <<65535, 39423>>, <<65535, 39372>>, <<65535, 39321>>, <<65535, 39270>>,
     <<65535, 39219>>, <<65535, 39168>>, <<65535, 26367>>, <<65535, 26316>>,
     <<65535, 26265>>, <<65535, 26214>>, <<65535, 26163>>, <<65535, 26112>>,
     <<65535, 13311>>, <<65535, 13260>>, <<65535, 13209>>, <<65535, 13158>>,
     <<65535, 13107>>, <<65535, 13056>>, <<65535, 255>>, <<65535, 204>>,
     <<65535, 153>>, <<65535, 102>>, <<65535, 51>>, <<65535, 0>>,
     <<65484, 65535>>, <<65484, 65484>>, <<65484, 65433>>, <<65484, 65382>>,
     <<65484, 65331>>, <<65484, 65280>>, <<65484, 52479>>, <<65484, 52428>>,
     <<65484, 52377>>, <<65484, 52326>>, <<65484, 52275>>, <<65484, 52224>>,
     <<65484, 39423>>, <<65484, 39372>>, <<65484, 39321>>, <<65484, 39270>>,
     <<65484, 39219>>, <<65484, 39168>>, <<65484, 26367>>, <<65484, 26316>>,
     <<65484, 26265>>, <<65484, 26214>>, <<65484, 26163>>, <<65484, 26112>>,
     <<65484, 13311>>, <<65484, 13260>>, <<65484, 13209>>, <<65484, 13158>>,
     <<65484, 13107>>, <<65484, 13056>>, <<65484, 255>>, <<65484, 204>>,
     <<65484, 153>>, <<65484, 102>>, <<65484, 51>>, <<65484, 0>>,
     <<65433, 65535>>, <<65433, 65484>>, <<65433, 65433>>, <<65433, 65382>>,
     <<65433, 65331>>, <<65433, 65280>>, <<65433, 52479>>, <<65433, 52428>>,
     <<65433, 52377>>, <<65433, 52326>>, <<65433, 52275>>, <<65433, 52224>>,
     <<65433, 39423>>, <<65433, 39372>>, <<65433, 39321>>, <<65433, 39270>>,
     <<65433, 39219>>, <<65433, 39168>>, <<65433, 26367>>, <<65433, 26316>>,
     <<65433, 26265>>, <<65433, 26214>>, <<65433, 26163>>, <<65433, 26112>>,
     <<65433, 13311>>, <<65433, 13260>>, <<65433, 13209>>, <<65433, 13158>>,
     <<65433, 13107>>, <<65433, 13056>>, <<65433, 255>>, <<65433, 204>>,
     <<65433, 153>>, <<65433, 102>>, <<65433, 51>>, <<65433, 0>>,
     <<65382, 65535>>, <<65382, 65484>>, <<65382, 65433>>, <<65382, 65382>>,
     <<65382, 65331>>, <<65382, 65280>>, <<65382, 52479>>, <<65382, 52428>>,
     <<65382, 52377>>, <<65382, 52326>>, <<65382, 52275>>, <<65382, 52224>>,
     <<65382, 39423>>, <<65382, 39372>>, <<65382, 39321>>, <<65382, 39270>>,
     <<65382, 39219>>, <<65382, 39168>>, <<65382, 26367>>, <<65382, 26316>>,
     <<65382, 26265>>, <<65382, 26214>>, <<65382, 26163>>, <<65382, 26112>>,
     <<65382, 13311>>, <<65382, 13260>>, <<65382, 13209>>, <<65382, 13158>>,
     <<65382, 13107>>, <<65382, 13056>>, <<65382, 255>>, <<65382, 204>>,
     <<65382, 153>>, <<65382, 102>>, <<65382, 51>>, <<65382, 0>>,
     <<65331, 65535>>, <<65331, 65484>>, <<65331, 65433>>, <<65331, 65382>>,
     <<65331, 65331>>, <<65331, 65280>>, <<65331, 52479>>, <<65331, 52428>>,
     <<65331, 52377>>, <<65331, 52326>>, <<65331, 52275>>, <<65331, 52224>>,
     <<65331, 39423>>, <<65331, 39372>>, <<65331, 39321>>, <<65331, 39270>>,
     <<65331, 39219>>, <<65331, 39168>>, <<65331, 26367>>, <<65331, 26316>>,
     <<65331, 26265>>, <<65331, 26214>>, <<65331, 26163>>, <<65331, 26112>>,
     <<65331, 13311>>, <<65331, 13260>>, <<65331, 13209>>, <<65331, 13158>>,
     <<65331, 13107>>, <<65331, 13056>>, <<65331, 255>>, <<65331, 204>>,
     <<65331, 153>>, <<65331, 102>>, <<65331, 51>>, <<65331, 0>>,
     <<65280, 65535>>, <<65280, 65484>>, <<65280, 65433>>, <<65280, 65382>>,
     <<65280, 65331>>, <<65280, 65280>>, <<65280, 52479>>, <<65280, 52428>>,
     <<65280, 52377>>, <<65280, 52326>>, <<65280, 52275>>, <<65280, 52224>>,
     <<65280, 39423>>, <<65280, 39372>>, <<65280, 39321>>, <<65280, 39270>>,
     <<65280, 39219>>, <<65280, 39168>>, <<65280, 26367>>, <<65280, 26316>>,
     <<65280, 26265>>, <<65280, 26214>>, <<65280, 26163>>, <<65280, 26112>>,
     <<65280, 13311>>, <<65280, 13260>>, <<65280, 13209>>, <<65280, 13158>>,
     <<65280, 13107>>, <<65280, 13056>>, <<65280, 255>>, <<65280, 204>>,
     <<65280, 153>>, <<65280, 102>>, <<65280, 51>>, <<65518, 0>>,
     <<65501, 0>>, <<65467, 0>>, <<65450, 0>>, <<65416, 0>>,
     <<65399, 0>>, <<65365, 0>>, <<65348, 0>>, <<65314, 0>>,
     <<65297, 0>>, <<65280, 60928>>, <<65280, 56576>>, <<65280, 47872>>,
     <<65280, 43520>>, <<65280, 34816>>, <<65280, 30464>>, <<65280, 21760>>,
     <<65280, 17408>>, <<65280, 8704>>, <<65280, 4352>>, <<65280, 238>>,
     <<65280, 221>>, <<65280, 187>>, <<65280, 170>>, <<65280, 136>>,
     <<65280, 119>>, <<65280, 85>>, <<65280, 68>>, <<65280, 34>>,
     <<65280, 17>>, <<65518, 61166>>, <<65501, 56797>>, <<65467, 48059>>,
     <<65450, 43690>>, <<65416, 34952>>, <<65399, 30583>>, <<65365, 21845>>,
     <<65348, 17476>>, <<65314, 8738>>, <<65297, 4369>>, <<65280, 0>>
  >>

kDefaultPalette == [i \in 0 .. 255 |-> Color(kDefaultPaletteWords[i + 1])]

\* What a Palette member that no constructor initialises may hold.
IndeterminatePalettes == {kDefaultPalette, [i \in 0 .. 255 |-> <<0, 0, 0, 0>>]}

(***************************************************************************)
(* Input files, as byte sequences written the way the format lays them out.*)
(***************************************************************************)
\* the one element of a singleton: The({e(x) : x \in {v}}) is e(v), with v
\* evaluated once
The(S) == CHOOSE x \in S : TRUE

Min(a, b) == IF a < b THEN a ELSE b

RECURSIVE Flatten(_)
Flatten(ss) == IF ss = <<>> THEN <<>> ELSE Head(ss) \o Flatten(Tail(ss))

Enc32(n) ==
  <<n % 256, (n \div 256) % 256, (n \div 65536) % 256, (n \div 16777216) % 256>>

\* a chunk whose header declares the sizes it really has
Chunk(id, contents, children) ==
  id \o Enc32(Len(contents)) \o Enc32(Len(children)) \o contents \o children

\* a chunk whose header declares sizes of its own choosing
ChunkDeclared(id, contents_size, children_size, bytes) ==
  id \o Enc32(contents_size) \o Enc32(children_size) \o bytes

VoxHeader == VOX \o Enc32(150)

SizeBytes(x, y, z) == Chunk(SIZE, Enc32(x) \o Enc32(y) \o Enc32(z), <<>>)

\* four-byte records laid end to end
Records(rs) == [i \in 1 .. 4 * Len(rs) |-> rs[((i - 1) \div 4) + 1][((i - 1) % 4) + 1]]

XyziBytes(voxels) == Chunk(XYZI, Enc32(Len(voxels)) \o Records(voxels), <<>>)

\* the j-th of the 256 colour records of the palette chunk of the test files
FileColor(j) == <<(3 * j + 1) % 256, 255 - j, (j + 128) % 256, 200>>

RgbaBytes == Chunk(RGBA, Records([j \in 1 .. 256 |-> FileColor(j - 1)]), <<>>)

MainBytes(children) == Chunk(MAIN, <<>>, Flatten(children))

\* every cell of an x * y * z box, in x-fastest order, with one colour
Box(x, y, z, c) ==
  [i \in 1 .. x * y * z |->
     <<(i - 1) % x, ((i - 1) \div x) % y, (i - 1) \div (x * y), c>>]

\* the j-th of the 256 colour records of a second palette chunk
FileColor2(j) == <<(5 * j + 2) % 256, j, 255 - j, 255>>

\* two neighbouring cells of a 4 x 3 x 3 grid, (1,1,1) and (2,1,1), each with
\* its six face neighbours filled
Pair ==
  << <<1, 1, 1, 7>>, <<2, 1, 1, 7>>,
     <<0, 1, 1, 7>>, <<3, 1, 1, 7>>,
     <<1, 0, 1, 7>>, <<1, 2, 1, 7>>, <<1, 1, 0, 7>>, <<1, 1, 2, 7>>,
     <<2, 0, 1, 7>>, <<2, 2, 1, 7>>, <<2, 1, 0, 7>>, <<2, 1, 2, 7>> >>

\* the chunks a file holds inside its MAIN chunk
SizeChunk(x, y, z) == [tag |-> "SIZE", size |-> <<x, y, z>>]
XyziChunk(voxels)  == [tag |-> "XYZI", voxels |-> voxels]
RgbaChunk(colors)  == [tag |-> "RGBA", colors |-> colors]
PackChunk(contents, children) ==
  [tag |-> "PACK", contents |-> contents, children |-> children]

Colors1 == [j \in 1 .. 256 |-> FileColor(j - 1)]
Colors2 == [j \in 1 .. 256 |-> FileColor2(j - 1)]

OneVoxelChunks == <<SizeChunk(1, 1, 1), XyziChunk(<< <<0, 0, 0, 9>> >>)>>

\* the children of MAIN of the files that are laid out chunk after chunk, by
\* path; <<>> for the other files
Layouts ==
  << \* 1: one model
     <<SizeChunk(2, 2, 1), XyziChunk(<< <<0, 0, 0, 5>>, <<1, 1, 0, 3>> >>)>>,
     \* 2: a palette chunk after the model
     OneVoxelChunks \o <<RgbaChunk(Colors1)>>,
     \* 3: a chunk the loader does not know and a palette chunk before the model
     <<PackChunk(Enc32(1), <<>>), RgbaChunk(Colors1)>> \o OneVoxelChunks,
     <<>>, <<>>, <<>>, <<>>, <<>>, <<>>,
     \* 10: records with colour 0 and a repeated coordinate
     <<SizeChunk(2, 1, 1),
       XyziChunk(<< <<0, 0, 0, 5>>, <<0, 0, 0, 0>>, <<1, 0, 0, 0>> >>)>>,
     \* 11: a full 3 x 3 x 3 box
     <<SizeChunk(3, 3, 3), XyziChunk(Box(3, 3, 3, 7))>>,
     <<>>, <<>>,
     \* 14: two neighbouring enclosed voxels, and a full 2 x 2 x 2 box
     <<SizeChunk(4, 3, 3), XyziChunk(Pair),
       SizeChunk(2, 2, 2), XyziChunk(Box(2, 2, 2, 6))>>,
     \* 15: two palette chunks, a size that is replaced before it is used, and
     \*     an unknown chunk whose children are a size and a voxel list
     <<RgbaChunk(Colors1),
       SizeChunk(3, 1, 1), SizeChunk(1, 1, 1), XyziChunk(<< <<0, 0, 0, 9>> >>),
       PackChunk(Enc32(1), <<SizeChunk(3, 3, 3), XyziChunk(<< <<2, 2, 2, 8>> >>)>>),
       SizeChunk(2, 1, 1), XyziChunk(<< <<1, 0, 0, 4>>, <<0, 0, 0, 2>> >>),
       RgbaChunk(Colors2)>>,
     \* 16: two voxel lists after one size
     <<SizeChunk(2, 1, 1), XyziChunk(<< <<0, 0, 0, 5>> >>),
       XyziChunk(<< <<1, 0, 0, 4>> >>)>>,
     \* 17: a voxel list with one record and no size before it
     <<XyziChunk(<< <<0, 0, 0, 5>> >>)>>,
     \* 18: a voxel list with no record and no size before it
     <<XyziChunk(<<>>)>>
  >>

\* the bytes of a chunk that has no children
LeafBytes(c) ==
  The({ IF d.tag = "SIZE" THEN SizeBytes(d.size[1], d.size[2], d.size[3])
        ELSE IF d.tag = "XYZI" THEN XyziBytes(d.voxels)
        ELSE Chunk(RGBA, Records(d.colors), <<>>)
        : d \in {c} })

\* the bytes of a chunk
ChunkBytes(c) ==
  The({ IF d.tag = "PACK"
        THEN Chunk(PACK, d.contents,
                   Flatten([i \in DOMAIN d.children |-> LeafBytes(d.children[i])]))
        ELSE LeafBytes(d)
        : d \in {c} })

\* the file with the given children of MAIN
FileOf(chunks) ==
  The({ VoxHeader \o MainBytes([i \in DOMAIN cs |-> ChunkBytes(cs[i])])
        : cs \in {chunks} })

OneVoxel == <<SizeBytes(1, 1, 1), XyziBytes(<< <<0, 0, 0, 9>> >>)>>

Files ==
  << \* 1 .. 3: see Layouts
     FileOf(Layouts[1]),
     FileOf(Layouts[2]),
     FileOf(Layouts[3]),
     \* 4: a wrong signature
     <<86, 79, 88, 49>> \o Enc32(150) \o MainBytes(OneVoxel),
     \* 5: a second voxel list whose record lies outside the grid's storage
     VoxHeader \o MainBytes(<<SizeBytes(2, 2, 1),
                           XyziBytes(<< <<0, 0, 0, 5>> >>),
                           XyziBytes(<< <<1, 1, 1, 4>> >>)>>),
     \* 6: x >= size.x, yet inside the grid's storage
     VoxHeader \o MainBytes(<<SizeBytes(2, 2, 1),
                           XyziBytes(<< <<2, 0, 0, 5>> >>)>>),
     \* 7: the file ends after the version
     VoxHeader,
     \* 8: MAIN declares 40 bytes of children, the file ends in the second header
     VoxHeader \o ChunkDeclared(MAIN, 0, 40, SizeBytes(1, 1, 1) \o <<88, 89>>),
     \* 9: the last child declares 100 bytes of contents, and MAIN counts them
     \*    among its children, but the file ends after that child's header
     VoxHeader \o ChunkDeclared(MAIN, 0, Len(Flatten(OneVoxel)) + 12 + 100,
                                Flatten(OneVoxel)
                                  \o ChunkDeclared(PACK, 100, 0, <<>>)),
     \* 10, 11: see Layouts
     FileOf(Layouts[10]),
     FileOf(Layouts[11]),
     \* 12: a SIZE chunk at the root, cut after its first extent
     VoxHeader \o ChunkDeclared(SIZE, 12, 0, Enc32(1)),
     \* 13: an empty file
     <<>>,
     \* 14 .. 18: see Layouts
     FileOf(Layouts[14]),
     FileOf(Layouts[15]),
     FileOf(Layouts[16]),
     FileOf(Layouts[17]),
     FileOf(Layouts[18]),
     \* 19: the one child of MAIN declares 2^32 - 12 bytes of contents
     VoxHeader \o ChunkDeclared(MAIN, 0, 12,
                                PACK \o <<244, 255, 255, 255>> \o Enc32(0))
  >>

\* the paths Load is called with: those of Files, and 0 for a file that cannot
\* be opened
Paths == 0 .. 19

\* the files that are well formed and whose records lie inside their grids
ValidPaths == {1, 2, 3, 10, 11, 14, 15}

\* the palette chunks among the children of MAIN of the file at p, in file order
IsRgba(c) == c.tag = "RGBA"

PaletteChunks(p) ==
  IF p \in DOMAIN Layouts THEN SelectSeq(Layouts[p], IsRgba) ELSE <<>>

\* the files that hold a palette chunk
WithPalette == {p \in DOMAIN Files : PaletteChunks(p) # <<>>}

(***************************************************************************)
(* std::ifstream.  A stream is [pos, fail].  A read that cannot deliver    *)
(* all its bytes stores the bytes there are, sets failbit and leaves the   *)
(* rest of the caller's buffer as it was; on a failed stream every read    *)
(* stores nothing, tellg() is -1 and seekg() does nothing.                 *)
(***************************************************************************)
FileSize(p) == IF p \in DOMAIN disk THEN Len(disk[p]) ELSE 0

\* ifstream file(path, ios::in | ios::binary)
Open(p) == [pos |-> Wide(0), fail |-> p \notin DOMAIN disk]

\* the stream once Load has left
Closed == [pos |-> Wide(0), fail |-> FALSE]

\* file.read(buf, n), buf holding `prior` before the call
Read(p, f, n, prior) ==
  LET k == IF f.fail \/ f.pos[1] > 0 \/ f.pos[2] >= FileSize(p)
           THEN 0
           ELSE Min(n, FileSize(p) - f.pos[2])
  IN  [buf |-> [i \in 1 .. n |-> IF i <= k THEN disk[p][f.pos[2] + i] ELSE prior[i]],
       f   |-> IF f.fail THEN f
               ELSE [pos |-> WAdd(f.pos, Wide(k)), fail |-> k < n]]

tellg(f) == IF f.fail THEN Wide(-1) ELSE f.pos

\* file.seekg(pos)
seekg(f, pos) == IF f.fail THEN f ELSE [f EXCEPT !.pos = pos]

\* file.seekg(off, ios_base::cur)
seekg_cur(f, off) == IF f.fail THEN f ELSE [f EXCEPT !.pos = WAdd(@, off)]

(***************************************************************************)
(* The contents of the uninitialised buffers the readers pass to read():   *)
(* char fid[4], char chunk_id_chars[5], char data[4], char byte.  A failed *)
(* read leaves them as they were, and the caller decodes them all the same.*)
(* What they hold is not determined by the program; the model lets the     *)
(* first failed read of a Load find any of Draws there, and later failed   *)
(* reads of that Load find the same.                                       *)
(***************************************************************************)
GarbageIds == {VOX, MAIN, SIZE, XYZI, RGBA, NoId}

GarbageWords == {<<0, 0, 0, 0>>, <<1, 0, 0, 0>>}

GarbageBytes == {0, 1}

Draws == [id : GarbageIds, word : GarbageWords, byte : GarbageBytes]

NoDraw == [id |-> NoId, word |-> <<0, 0, 0, 0>>, byte |-> 0]

\* le_u32read(file)
le_u32read(p, f, g) ==
  The({ [val |-> <<r.buf[3] + 256 * r.buf[4], r.buf[1] + 256 * r.buf[2]>>,
         f   |-> r.f]
        : r \in {Read(p, f, 4, g.word)} })

\* read_byte's conversion char -> int, char being signed
read_byte(b) == IF b >= 128 THEN b - 256 ELSE b

\* read_uint8's conversion of that int to uint8_t
read_uint8(b) == read_byte(b) % 256

\* std::string(chunk_id_chars): the characters before the first NUL
CString(buf) ==
  LET z == {i \in 1 .. Len(buf) : buf[i] = 0}
  IN  IF z = {} THEN buf
      ELSE SubSeq(buf, 1, (CHOOSE i \in z : \A j \in z : i <= j) - 1)

(***************************************************************************)
(* VoxDenseModel and VoxSparseModel (vox_file.h).  A model also records    *)
(* the Load call that built it.                                            *)
(***************************************************************************)
\* VoxDenseModel(size): voxels_.resize(size.x * size.y * size.z); palette_
\* is given no initialiser.
VoxDenseModel(size, indeterminate) ==
  [size    |-> size,
   voxels  |-> [i \in 1 .. size[1] * size[2] * size[3] |-> 0],
   palette |-> indeterminate,
   load    |-> loads]

\* a sparse model constructed without its size
VoxSparseModel_NoSize(size) ==
  [size |-> <<0, 0, 0>>, voxels |-> <<>>, palette |-> kDefaultPalette,
   load |-> loads]

\* VoxSparseModel(size, palette = kDefaultPalette)
VoxSparseModel(size) ==
  [size |-> size, voxels |-> <<>>, palette |-> kDefaultPalette, load |-> loads]

\* the index VoxDenseModel::voxel(x, y, z) hands to voxels_.at()
CellIndex(size, x, y, z) == x + (y * size[1]) + (z * size[1] * size[2])

\* whether voxels_.at(index) throws std::out_of_range
OutOfRange(dense, index) == index >= Len(dense.voxels)

\* voxel(x, y, z) as a value
VoxelAt(dense, x, y, z) == dense.voxels[CellIndex(dense.size, x, y, z) + 1]

\* voxel(x, y, z) = color
SetVoxel(dense, x, y, z, color) ==
  [dense EXCEPT !.voxels[CellIndex(dense.size, x, y, z) + 1] = color]

(***************************************************************************)
(* VoxFile::RemoveHiddenVoxels.                                            *)
(***************************************************************************)
\* voxel.c < dense.size().c - 1, the right-hand side computed in uint32_t:
\* an extent of 0 gives 2^32 - 1
BelowLast(c, extent) == IF extent = 0 THEN TRUE ELSE c < extent - 1

\* the conjuncts with the two bound tests of the x axis made on voxel.y
Sides_YForX(dense, v) ==
  << <<v[2] > 0,                        <<v[1] - 1, v[2], v[3]>> >>,
     <<BelowLast(v[2], dense.size[2]),  <<v[1] + 1, v[2], v[3]>> >>,
     <<v[2] > 0,                        <<v[1], v[2] - 1, v[3]>> >>,
     <<BelowLast(v[2], dense.size[2]),  <<v[1], v[2] + 1, v[3]>> >>,
     <<v[3] > 0,                        <<v[1], v[2], v[3] - 1>> >>,
     <<BelowLast(v[3], dense.size[3]),  <<v[1], v[2], v[3] + 1>> >> >>

\* the twelve conjuncts of the test, as six pairs <<bound test, neighbour>>
Sides(dense, v) ==
  << <<v[1] > 0,                        <<v[1] - 1, v[2], v[3]>> >>,
     <<BelowLast(v[1], dense.size[1]),  <<v[1] + 1, v[2], v[3]>> >>,
     <<v[2] > 0,                        <<v[1], v[2] - 1, v[3]>> >>,
     <<BelowLast(v[2], dense.size[2]),  <<v[1], v[2] + 1, v[3]>> >>,
     <<v[3] > 0,                        <<v[1], v[2], v[3] - 1>> >>,
     <<BelowLast(v[3], dense.size[3]),  <<v[1], v[2], v[3] + 1>> >> >>

\* the && chain from its i-th pair on: "hidden" when it is true, "kept" when
\* a conjunct is false, "throw" when a neighbour's at() throws
RECURSIVE Probe(_, _, _)
Probe(dense, sides, i) ==
  IF i > Len(sides) THEN "hidden"
  ELSE IF ~sides[i][1] THEN "kept"
  ELSE LET c == sides[i][2]
           index == CellIndex(dense.size, c[1], c[2], c[3])
       IN  IF OutOfRange(dense, index) THEN "throw"
           ELSE IF dense.voxels[index + 1] = 0 THEN "kept"
           ELSE Probe(dense, sides, i + 1)

\* one turn of the loop without the assignment to the hidden voxel's cell
CullVoxel_KeepsCell(st, v) ==
  The({
    IF verdict = "throw" THEN [st EXCEPT !.thrown = TRUE]
    ELSE IF verdict = "hidden" THEN st
    ELSE [st EXCEPT !.sparse.voxels = Append(@, v)]
    : verdict \in {Probe(st.dense, Sides(st.dense, v), 1)} })

\* one turn of the loop, at voxel v: st holds dense, sparse and whether an
\* at() has thrown
CullVoxel(st, v) ==
  The({
    IF verdict = "throw" THEN [st EXCEPT !.thrown = TRUE]
    ELSE IF verdict = "hidden"
    THEN [st EXCEPT !.dense = SetVoxel(@, v[1], v[2], v[3], 0)]
    ELSE [st EXCEPT !.sparse.voxels = Append(@, v)]
    : verdict \in {Probe(st.dense, Sides(st.dense, v), 1)} })

\* the loop over voxels from the i-th on
RECURSIVE CullFrom(_, _, _)
CullFrom(st, voxels, i) ==
  IF i > Len(voxels) \/ st.thrown THEN st
  ELSE The({ CullFrom(t, voxels, i + 1) : t \in {CullVoxel(st, voxels[i])} })

RemoveHiddenVoxels(dense, sparse, voxels, i) ==
  CullFrom([dense |-> dense, sparse |-> sparse, thrown |-> FALSE], voxels, i)

(***************************************************************************)
(* The chunk handlers.  Each takes the stream f over the file at p and the *)
(* prior contents g of the read buffers.                                   *)
(***************************************************************************)
\* ReadSizeChunk: cur_size_ = {le_u32read, le_u32read, le_u32read}, read in
\* the order x, y, z
ReadSizeChunk(p, f, g) ==
  The({ The({ The({
    [f |-> z.f, cur_size |-> <<Num(x.val), Num(y.val), Num(z.val)>>]
    : z \in {le_u32read(p, y.f, g)} })
    : y \in {le_u32read(p, x.f, g)} })
    : x \in {le_u32read(p, f, g)} })

\* the voxel loop's turn with a record written only onto a cell that is still 0
ReadVoxel_FirstWins(p, g, st) ==
  The({ The({
    IF OutOfRange(st.dense, CellIndex(st.dense.size, v[1], v[2], v[3]))
    THEN [f |-> r.f, dense |-> st.dense, voxels |-> Append(st.voxels, v),
          thrown |-> TRUE]
    ELSE [f |-> r.f,
          dense |-> IF VoxelAt(st.dense, v[1], v[2], v[3]) = 0
                    THEN SetVoxel(st.dense, v[1], v[2], v[3], v[4])
                    ELSE st.dense,
          voxels |-> Append(st.voxels, v), thrown |-> FALSE]
    : v \in {[i \in 1 .. 4 |-> read_uint8(r.buf[i])]} })
    : r \in {Read(p, st.f, 4, <<g.byte, g.byte, g.byte, g.byte>>)} })

\* one turn of the voxel loop: four read_uint8 and dense.voxel(x, y, z) = color;
\* st holds the stream, dense, voxels and whether at() has thrown
ReadVoxel(p, g, st) ==
  The({ The({
    IF OutOfRange(st.dense, CellIndex(st.dense.size, v[1], v[2], v[3]))
    THEN [f |-> r.f, dense |-> st.dense, voxels |-> Append(st.voxels, v),
          thrown |-> TRUE]
    ELSE [f |-> r.f, dense |-> SetVoxel(st.dense, v[1], v[2], v[3], v[4]),
          voxels |-> Append(st.voxels, v), thrown |-> FALSE]
    : v \in {[i \in 1 .. 4 |-> read_uint8(r.buf[i])]} })
    : r \in {Read(p, st.f, 4, <<g.byte, g.byte, g.byte, g.byte>>)} })

\* the voxel loop of ReadXyziChunk with n records still to read
RECURSIVE ReadVoxelsFrom(_, _, _, _)
ReadVoxelsFrom(p, g, st, n) ==
  IF n = 0 \/ st.thrown THEN st
  ELSE The({ ReadVoxelsFrom(p, g, t, n - 1) : t \in {ReadVoxel(p, g, st)} })

ReadVoxels(p, f, g, dense, voxels, n) ==
  ReadVoxelsFrom(p, g, [f |-> f, dense |-> dense, voxels |-> voxels,
                        thrown |-> FALSE], n)

\* what ReadXyziChunk does with the voxels read: RemoveHiddenVoxels, or
\* sparse.voxels().assign
Build(read, sparse) ==
  IF read.thrown
  THEN [dense |-> read.dense, sparse |-> sparse, thrown |-> TRUE]
  ELSE IF remove_hidden_voxels_
  THEN RemoveHiddenVoxels(read.dense, sparse, read.voxels, 1)
  ELSE [dense |-> read.dense, sparse |-> [sparse EXCEPT !.voxels = read.voxels],
        thrown |-> FALSE]

\* ReadXyziChunk up to the two push_back calls
ReadXyziChunk(p, f, g, indeterminate) ==
  The({ The({ The({
    [f |-> read.f, thrown |-> built.thrown, dense |-> built.dense,
     sparse |-> built.sparse]
    : built \in {Build(read, VoxSparseModel(cur_size_))} })
    : read \in {ReadVoxels(p, n_voxels.f, g, VoxDenseModel(cur_size_, indeterminate),
                           <<>>, Num(n_voxels.val))} })
    : n_voxels \in {le_u32read(p, f, g)} })

\* the loop with palette_[i] taking the i-th record instead of record i - 1
ReadRgbaChunk_NoShift(p, f, g) ==
  The({
    [f |-> r.f,
     palette |-> [i \in 0 .. 255 |->
                    IF i = 0 THEN palette_[0]
                    ELSE [c \in 1 .. 4 |-> read_byte(r.buf[4 * i + c]) % 256]]]
    : r \in {Read(p, f, 4 * 256, [i \in 1 .. 4 * 256 |-> g.byte])} })

\* ReadRgbaChunk: palette_[i] for i = 1 .. 255 from four read_byte calls each
ReadRgbaChunk(p, f, g) ==
  The({
    [f |-> r.f,
     palette |-> [i \in 0 .. 255 |->
                    IF i = 0 THEN palette_[0]
                    ELSE [c \in 1 .. 4 |-> read_byte(r.buf[4 * (i - 1) + c]) % 256]]]
    : r \in {Read(p, f, 4 * 255, [i \in 1 .. 4 * 255 |-> g.byte])} })

\* the header with a next_chunk_pos that leaves out children_size
Header_ContentsOnly(g) ==
  The({ The({ The({
    [chunk_id       |-> CString(id.buf),
     contents_size  |-> contents_size.val,
     children_size  |-> children_size.val,
     next_chunk_pos |-> U32(WAdd(U32(tellg(children_size.f)),
                                 contents_size.val)),
     f              |-> children_size.f]
    : children_size \in {le_u32read(path, contents_size.f, g)} })
    : contents_size \in {le_u32read(path, id.f, g)} })
    : id \in {Read(path, file, 4, g.id)} })

(***************************************************************************)
(* VoxFile::ReadChunk up to its dispatch: the id, the two sizes, the       *)
(* offset of the contents and the offset the chunk is left at.             *)
(***************************************************************************)
Header(g) ==
  The({ The({ The({
    [chunk_id       |-> CString(id.buf),
     contents_size  |-> contents_size.val,
     children_size  |-> children_size.val,
     next_chunk_pos |-> U32(WAdd(WAdd(U32(tellg(children_size.f)),
                                      contents_size.val),
                                 children_size.val)),
     f              |-> children_size.f]
    : children_size \in {le_u32read(path, contents_size.f, g)} })
    : contents_size \in {le_u32read(path, id.f, g)} })
    : id \in {Read(path, file, 4, g.id)} })

\* ReadMainChunk up to its loop: the stream at the first child, and end_pos
ReadMainChunk(f, contents_size, children_size) ==
  LET at_children == seekg_cur(f, contents_size)
  IN  [f       |-> at_children,
       end_pos |-> U32(WAdd(U32(tellg(at_children)), children_size))]

\* file.tellg() < end_pos, the test of ReadMainChunk's loop
MoreChildren == WLess(tellg(file), stack[Len(stack)].end_pos)

\* a ReadChunk call is about to be made: the one of Load, or one of the loop
CanCall == pc = "chunk" \/ (pc = "loop" /\ MoreChildren)

\* whether the call reads past the end of the data, given zeroed buffers
ReadsFail ==
  \E h \in {Header(NoDraw)} :
    \/ h.f.fail
    \/ h.chunk_id = SIZE /\ ReadSizeChunk(path, h.f, NoDraw).f.fail
    \/ h.chunk_id = XYZI /\ ReadXyziChunk(path, h.f, NoDraw, kDefaultPalette).f.fail
    \/ h.chunk_id = RGBA /\ ReadRgbaChunk(path, h.f, NoDraw).f.fail

\* the buffer contents the call may find
DrawSet ==
  IF file.fail THEN {buffers} ELSE IF ReadsFail THEN Draws ELSE {NoDraw}

\* models of collection ms that the running Load built
BuiltHere(ms) == Cardinality({i \in DOMAIN ms : ms[i].load = loads})

\* the call returns to its caller: Load, or the loop of a MAIN chunk
Returned(f, g, frames) ==
  /\ file' = f
  /\ buffers' = g
  /\ stack' = frames
  /\ pc' = IF frames = <<>> THEN "stamp" ELSE "loop"
  /\ calls' = 1 - calls

\* an exception leaves Load
Thrown(what) ==
  /\ pc' = "idle"
  /\ result' = what
  /\ file' = Closed
  /\ buffers' = NoDraw
  /\ stack' = <<>>

(***************************************************************************)
(* Operations.                                                             *)
(***************************************************************************)
Init ==
  /\ disk = Files
  /\ load_dense_ \in BOOLEAN
  /\ load_sparse_ \in BOOLEAN
  /\ remove_hidden_voxels_ \in BOOLEAN
  /\ cur_size_ = <<0, 0, 0>>
  /\ palette_ = kDefaultPalette
  /\ dense_models_ = <<>>
  /\ sparse_models_ = <<>>
  /\ path = 0
  /\ file = Closed
  /\ buffers = NoDraw
  /\ stack = <<>>
  /\ pc = "idle"
  /\ result = "none"
  /\ loads = 0
  /\ calls = 0

\* ReadId comparing three of the four characters
ReadId_FirstThree(fid, id) ==
  fid[1] # id[1] \/ fid[2] # id[2] \/ fid[3] # id[3]

\* VoxFile::ReadId: whether the four characters read differ from id
ReadId(fid, id) ==
  fid[1] # id[1] \/ fid[2] # id[2] \/ fid[3] # id[3] \/ fid[4] # id[4]

\* VoxFile::Load up to its ReadChunk call
Load(p) ==
  /\ pc = "idle"
  /\ loads < MaxLoads
  /\ loads' = loads + 1
  /\ path' = p
  /\ dense_models_' = <<>>
  /\ \E g \in IF FileSize(p) >= 8 THEN {NoDraw} ELSE Draws :
       \E fid \in {Read(p, Open(p), 4, g.id)} :
       \E version \in {le_u32read(p, fid.f, g)} :
           IF ReadId(fid.buf, VOX)
           THEN Thrown("VoxException")
           ELSE /\ pc' = "chunk"
                /\ file' = version.f
                /\ buffers' = g
                /\ UNCHANGED <<stack, result>>
  /\ UNCHANGED <<disk, load_dense_, load_sparse_, remove_hidden_voxels_, cur_size_,
                 palette_, sparse_models_, calls>>

\* ReadChunk of a MAIN chunk: ReadMainChunk enters its loop
ReadChunk_MAIN ==
  /\ CanCall
  /\ Len(stack) < MaxDepth
  /\ \E g \in DrawSet :
       \E h \in {Header(g)} :
       \E m \in {ReadMainChunk(h.f, h.contents_size, h.children_size)} :
           /\ h.chunk_id = MAIN
           /\ Returned(m.f, g, Append(stack, [end_pos |-> m.end_pos,
                                           next_chunk_pos |-> h.next_chunk_pos]))
  /\ UNCHANGED <<disk, load_dense_, load_sparse_, remove_hidden_voxels_, cur_size_,
                 palette_, dense_models_, sparse_models_, path, result, loads>>

\* ReadMainChunk's loop ends, and ReadChunk seeks to the end of the MAIN chunk
ReadChunk_MAIN_end ==
  /\ pc = "loop"
  /\ ~MoreChildren
  /\ stack' = SubSeq(stack, 1, Len(stack) - 1)
  /\ file' = seekg(file, stack[Len(stack)].next_chunk_pos)
  /\ pc' = IF Len(stack) = 1 THEN "stamp" ELSE "loop"
  /\ UNCHANGED <<disk, buffers, load_dense_, load_sparse_, remove_hidden_voxels_, cur_size_,
                 palette_, dense_models_, sparse_models_, path, result, loads,
                 calls>>

\* ReadChunk of a SIZE chunk
ReadChunk_SIZE ==
  /\ CanCall
  /\ \E g \in DrawSet :
       \E h \in {Header(g)} :
           /\ h.chunk_id = SIZE
           /\ \E r \in {ReadSizeChunk(path, h.f, g)} :
                /\ cur_size_' = r.cur_size
                /\ Returned(seekg(r.f, h.next_chunk_pos), g, stack)
  /\ UNCHANGED <<disk, load_dense_, load_sparse_, remove_hidden_voxels_, palette_,
                 dense_models_, sparse_models_, path, result, loads>>

\* ReadChunk of an XYZI chunk
ReadChunk_XYZI ==
  /\ CanCall
  /\ BuiltHere(dense_models_) < MaxModels
  /\ BuiltHere(sparse_models_) < MaxModels
  /\ \E g \in DrawSet :
     \E indeterminate \in IF load_dense_ THEN IndeterminatePalettes
                                         ELSE {kDefaultPalette} :
       \E h \in {Header(g)} :
           /\ h.chunk_id = XYZI
           /\ \E r \in {ReadXyziChunk(path, h.f, g, indeterminate)} :
              IF r.thrown
              THEN /\ Thrown("out_of_range")
                   /\ UNCHANGED <<dense_models_, sparse_models_>>
                   /\ calls' = 1 - calls
              ELSE /\ dense_models_' = IF load_dense_
                                       THEN Append(dense_models_, r.dense)
                                       ELSE dense_models_
                   /\ sparse_models_' = IF load_sparse_
                                        THEN Append(sparse_models_, r.sparse)
                                        ELSE sparse_models_
                   /\ Returned(seekg(r.f, h.next_chunk_pos), g, stack)
                   /\ UNCHANGED result
  /\ UNCHANGED <<disk, load_dense_, load_sparse_, remove_hidden_voxels_, cur_size_,
                 palette_, path, loads>>

\* ReadChunk of an RGBA chunk
ReadChunk_RGBA ==
  /\ CanCall
  /\ \E g \in DrawSet :
       \E h \in {Header(g)} :
           /\ h.chunk_id = RGBA
           /\ \E r \in {ReadRgbaChunk(path, h.f, g)} :
                /\ palette_' = r.palette
                /\ Returned(seekg(r.f, h.next_chunk_pos), g, stack)
  /\ UNCHANGED <<disk, load_dense_, load_sparse_, remove_hidden_voxels_, cur_size_,
                 dense_models_, sparse_models_, path, result, loads>>

\* ReadChunk of a chunk with any other id: only the seek
ReadChunk_other ==
  /\ CanCall
  /\ \E g \in DrawSet :
       \E h \in {Header(g)} :
           /\ h.chunk_id \notin {MAIN, SIZE, XYZI, RGBA}
           /\ Returned(seekg(h.f, h.next_chunk_pos), g, stack)
  /\ UNCHANGED <<disk, load_dense_, load_sparse_, remove_hidden_voxels_, cur_size_,
                 palette_, dense_models_, sparse_models_, path, result, loads>>

\* the end of VoxFile::Load: the palette goes onto every dense model
LoadReturn ==
  /\ pc = "stamp"
  /\ dense_models_' = [i \in DOMAIN dense_models_ |->
                         [dense_models_[i] EXCEPT !.palette = palette_]]
  /\ pc' = "idle"
  /\ result' = "returned"
  /\ file' = Closed
  /\ buffers' = NoDraw
  /\ UNCHANGED <<disk, load_dense_, load_sparse_, remove_hidden_voxels_, cur_size_,
                 palette_, sparse_models_, path, stack, loads, calls>>

\* a step of the running Load
Step ==
  \/ ReadChunk_MAIN
  \/ ReadChunk_MAIN_end
  \/ ReadChunk_SIZE
  \/ ReadChunk_XYZI
  \/ ReadChunk_RGBA
  \/ ReadChunk_other
  \/ LoadReturn

\* the operations, Load being called with the paths of P
NextOver(P) ==
  \/ \E p \in P : Load(p)
  \/ ReadChunk_MAIN
  \/ ReadChunk_MAIN_end
  \/ ReadChunk_SIZE
  \/ ReadChunk_XYZI
  \/ ReadChunk_RGBA
  \/ ReadChunk_other
  \/ LoadReturn

Next == NextOver(Paths)

Spec == Init /\ [][Next]_vars

\* Load is a synchronous call: once made it keeps running
FairSpec == Spec /\ WF_vars(Step)

\* the instance is only ever given well-formed files
ValidNext == NextOver(ValidPaths)

ValidSpec == Init /\ [][ValidNext]_vars

(***************************************************************************)
(* Vocabulary of the properties.                                           *)
(***************************************************************************)
\* the last Load returned normally
Succeeded == pc = "idle" /\ result = "returned"

\* the last Load was left by an exception
Failed == pc = "idle" /\ result \in {"VoxException", "out_of_range"}

\* the models of collection ms that the last Load built
Produced(ms) == {i \in DOMAIN ms : ms[i].load = loads}

\* the palette a file defines: its RGBA records at 1 .. 255, else the default
FinalPalette(p) ==
  IF p \in WithPalette
  THEN [i \in 0 .. 255 |->
          IF i = 0 THEN kDefaultPalette[0]
          ELSE PaletteChunks(p)[Len(PaletteChunks(p))].colors[i]]
  ELSE kDefaultPalette

\* voxel record v lies inside a grid of the given size
InBounds(v, size) == v[1] < size[1] /\ v[2] < size[2] /\ v[3] < size[3]

\* the model stopped following the Load at one of its bounds
Capped ==
  \/ Len(stack) >= MaxDepth
  \/ BuiltHere(dense_models_) >= MaxModels
  \/ BuiltHere(sparse_models_) >= MaxModels

(***************************************************************************)
(* The properties of VoxFile::Load.                                        *)
(***************************************************************************)

\* C1: after a Load that succeeds, denseModels() and sparseModels() hold only
\* models decoded by that Load, none from an earlier Load.
C1_OnlyModelsOfLastLoad ==
  Succeeded =>
    /\ \A i \in DOMAIN dense_models_ : dense_models_[i].load = loads
    /\ \A i \in DOMAIN sparse_models_ : sparse_models_[i].load = loads

\* C2: after a Load that fails, neither collection holds a model that this
\* Load produced.
C2_FailedLoadPublishesNothing ==
  Failed => Produced(dense_models_) = {} /\ Produced(sparse_models_) = {}

\* C3: a voxel record with a coordinate >= the corresponding extent makes Load
\* fail: no Load that returns has decoded such a record into a model.
C3_RecordOutsideSizeFails ==
  Succeeded =>
    \A i \in Produced(sparse_models_) :
      \A k \in DOMAIN sparse_models_[i].voxels :
        InBounds(sparse_models_[i].voxels[k], sparse_models_[i].size)

\* C4: when the data of an existing file end before the bytes a read asks for,
\* Load does not go on to return normally.
C4_ShortReadFails ==
  ~(pc = "stamp" /\ path \in DOMAIN Files /\ file.fail)

\* C5: when the declared sizes of a chunk put its end beyond the end of the
\* file, Load does not go on to return normally.
C5_DeclaredEndBeyondFileFails ==
  ~(pc = "stamp" /\ ~file.fail /\ WLess(Wide(FileSize(path)), file.pos))

\* C6: every Load terminates, by returning or by failing (or is no longer
\* followed because it reached a bound of the model).
C6_LoadTerminates == (pc # "idle") ~> (pc = "idle" \/ Capped)

\* C7: a Load of a file whose first four bytes are not "VOX " fails at once:
\* no chunk is read, no model is appended, cur_size_ and palette_ keep their
\* values.
C7_SignatureMismatchFailsAtOnce ==
  [][(/\ pc = "idle"
      /\ loads' = loads + 1
      /\ FileSize(path') >= 4
      /\ SubSeq(Files[path'], 1, 4) # VOX)
     => (/\ pc' = "idle"
         /\ result' = "VoxException"
         /\ calls' = calls
         /\ dense_models_' = <<>>
         /\ sparse_models_' = sparse_models_
         /\ cur_size_' = cur_size_
         /\ palette_' = palette_)]_vars

\* C7, witness: the instance has loaded a file with its own size and palette,
\* and then a Load of the file with the wrong signature has failed.
C7_Witness ==
  /\ path = 4
  /\ Failed
  /\ result = "VoxException"
  /\ cur_size_ # <<0, 0, 0>>
  /\ palette_ # kDefaultPalette
  /\ sparse_models_ # <<>>

\* C8: after a Load that succeeds, every model it produced, dense or sparse,
\* carries the file's final palette.
C8_FinalPaletteOnEveryModel ==
  Succeeded =>
    /\ \A i \in Produced(dense_models_) :
         dense_models_[i].palette = FinalPalette(path)
    /\ \A i \in Produced(sparse_models_) :
         sparse_models_[i].palette = FinalPalette(path)

\* C9: after a Load of a file without an RGBA chunk, every model it produced
\* carries the default palette, whatever the instance loaded before.
C9_DefaultPaletteWithoutRgba ==
  (Succeeded /\ path \notin WithPalette) =>
    /\ \A i \in Produced(dense_models_) :
         dense_models_[i].palette = kDefaultPalette
    /\ \A i \in Produced(sparse_models_) :
         sparse_models_[i].palette = kDefaultPalette

\* C10: after a Load that succeeds with dense and sparse output, every voxel
\* of sparseModels()[i] lies on a non-zero cell of denseModels()[i].
C10_SparseVoxelsNonZeroInDense ==
  (Succeeded /\ load_dense_ /\ load_sparse_) =>
    \A i \in DOMAIN sparse_models_ \cap DOMAIN dense_models_ :
      \A k \in DOMAIN sparse_models_[i].voxels :
        LET v == sparse_models_[i].voxels[k]
            index == CellIndex(dense_models_[i].size, v[1], v[2], v[3])
        IN  /\ ~OutOfRange(dense_models_[i], index)
            /\ dense_models_[i].voxels[index + 1] # 0
\* the models of collection ms that the last Load built, in the order built
ProducedSeq(ms) ==
  SubSeq(ms, Len(ms) - Cardinality(Produced(ms)) + 1, Len(ms))

\* a grid of the given size with every cell 0
ZeroGrid(size) ==
  [size |-> size, voxels |-> [i \in 1 .. size[1] * size[2] * size[3] |-> 0]]

\* grid with the colours of voxels, from the i-th on, written in list order
RECURSIVE Rebuilt(_, _, _)
Rebuilt(grid, voxels, i) ==
  IF i > Len(voxels) THEN grid
  ELSE The({ Rebuilt(next, voxels, i + 1)
             : next \in {SetVoxel(grid, voxels[i][1], voxels[i][2],
                                  voxels[i][3], voxels[i][4])} })

\* C11: without culling, writing the voxels of each sparse model of a
\* successful Load, in list order, onto an all-zero grid of the model's size
\* gives the grid of the dense model built from the same chunk, cell for cell.
C11_SparseRebuildsDense ==
  (Succeeded /\ ~remove_hidden_voxels_ /\ load_dense_ /\ load_sparse_) =>
    /\ Len(ProducedSeq(sparse_models_)) = Len(dense_models_)
    /\ \A k \in DOMAIN dense_models_ :
         \E sparse \in {ProducedSeq(sparse_models_)[k]} :
           Rebuilt(ZeroGrid(sparse.size), sparse.voxels, 1).voxels
             = dense_models_[k].voxels

\* C11, witness: a Load without culling has returned both representations of
\* a voxel list in which a later record overwrites an earlier one.
C11_Witness ==
  /\ Succeeded /\ ~remove_hidden_voxels_ /\ load_dense_ /\ load_sparse_
  /\ path = 10
  /\ Len(dense_models_) = 1
  /\ Len(ProducedSeq(sparse_models_)[1].voxels) = 3
  /\ dense_models_[1].voxels = <<0, 0>>
\* this step is a ReadChunk call on an XYZI chunk that returns
XyziReturns ==
  /\ CanCall
  /\ calls' # calls
  /\ pc' # "idle"
  /\ Header(buffers').chunk_id = XYZI

\* what the voxel loop of that call has read: the records, and the dense grid
\* before RemoveHiddenVoxels runs
Decoded ==
  The({ ReadVoxels(path, n_voxels.f, buffers',
                   VoxDenseModel(cur_size_, kDefaultPalette), <<>>,
                   Num(n_voxels.val))
        : n_voxels \in {le_u32read(path, Header(buffers').f, buffers')} })

\* the models that call appends
NewDense == dense_models_'[Len(dense_models_')]
NewSparse == sparse_models_'[Len(sparse_models_')]

\* the elements of a sequence
Range(seq) == {seq[i] : i \in DOMAIN seq}

\* voxel v lies on one of the six boundary faces of a grid of the given size
OnFace(v, size) ==
  \E a \in 1 .. 3 : v[a] = 0 \/ v[a] = size[a] - 1

\* a grid with an extent of 1 or 2
Thin(size) == \E a \in 1 .. 3 : size[a] \in {1, 2}

\* C12: with culling, a decoded voxel on a boundary face of its model is
\* never removed (it is in the sparse list and its dense cell is as the voxel
\* loop left it), and a model with an extent of 1 or 2 loses no voxel.
C12_BoundaryVoxelsKept ==
  [][(XyziReturns /\ remove_hidden_voxels_) =>
       \E read \in {Decoded} :
         /\ \A i \in DOMAIN read.voxels :
              OnFace(read.voxels[i], cur_size_) =>
                /\ load_sparse_ => read.voxels[i] \in Range(NewSparse.voxels)
                /\ load_dense_ =>
                     VoxelAt(NewDense, read.voxels[i][1], read.voxels[i][2],
                             read.voxels[i][3])
                       = VoxelAt(read.dense, read.voxels[i][1],
                                 read.voxels[i][2], read.voxels[i][3])
         /\ Thin(cur_size_) =>
              /\ load_sparse_ => NewSparse.voxels = read.voxels
              /\ load_dense_ => NewDense.voxels = read.dense.voxels]_vars

\* C12, witness: a Load with culling has returned a 4 x 3 x 3 model that lost
\* an enclosed voxel and kept its ten boundary voxels, and a full 2 x 2 x 2
\* box with all eight voxels.
C12_Witness ==
  /\ Succeeded /\ remove_hidden_voxels_ /\ load_dense_ /\ load_sparse_
  /\ path = 14
  /\ Len(dense_models_) = 2
  /\ Len(ProducedSeq(sparse_models_)[1].voxels) = 11
  /\ ProducedSeq(sparse_models_)[2].voxels = Box(2, 2, 2, 6)
  /\ dense_models_[2].voxels = [i \in 1 .. 8 |-> 6]
IsXyzi(c) == c.tag = "XYZI"

\* the voxel lists of the XYZI chunks among the children of MAIN of the file
\* at p, in file order
VoxelLists(p) ==
  IF p \in DOMAIN Layouts
  THEN [i \in DOMAIN SelectSeq(Layouts[p], IsXyzi) |->
          SelectSeq(Layouts[p], IsXyzi)[i].voxels]
  ELSE <<>>

\* the files whose MAIN chunk is laid out chunk after chunk
LaidOut == {p \in DOMAIN Layouts : Layouts[p] # <<>>}

\* C13: after a successful Load of a file with n XYZI chunks on a fresh
\* instance, denseModels() has n entries if load_dense and none otherwise,
\* sparseModels() has n entries if load_sparse and none otherwise, the i-th
\* entry of each comes from the i-th XYZI chunk, and the dense and the sparse
\* model at one index have the same size.
C13_OneModelPerChunkInOrder ==
  (Succeeded /\ loads = 1 /\ path \in LaidOut) =>
    \E lists \in {VoxelLists(path)} :
      /\ Len(dense_models_) = IF load_dense_ THEN Len(lists) ELSE 0
      /\ Len(sparse_models_) = IF load_sparse_ THEN Len(lists) ELSE 0
      /\ \A i \in DOMAIN sparse_models_ :
           IF remove_hidden_voxels_
           THEN Range(sparse_models_[i].voxels) \subseteq Range(lists[i])
           ELSE sparse_models_[i].voxels = lists[i]
      /\ \A i \in DOMAIN dense_models_ :
           \E full \in {Rebuilt(ZeroGrid(dense_models_[i].size), lists[i], 1)} :
             \A c \in DOMAIN full.voxels :
               \/ dense_models_[i].voxels[c] = full.voxels[c]
               \/ remove_hidden_voxels_ /\ dense_models_[i].voxels[c] = 0
      /\ \A i \in DOMAIN dense_models_ \cap DOMAIN sparse_models_ :
           dense_models_[i].size = sparse_models_[i].size

\* C13, witness: a fresh instance has loaded, with both outputs, a file with
\* two XYZI chunks of different sizes among its children.
C13_Witness ==
  /\ Succeeded /\ loads = 1 /\ path = 15
  /\ load_dense_ /\ load_sparse_
  /\ Len(dense_models_) = 2 /\ Len(sparse_models_) = 2
  /\ dense_models_[1].size = <<1, 1, 1>>
  /\ sparse_models_[2].size = <<2, 1, 1>>
\* v lies strictly inside the box of the given size on all three axes
Interior(v, size) == \A a \in 1 .. 3 : 0 < v[a] /\ v[a] < size[a] - 1

\* the six face-adjacent cells of v are non-zero in the grid
Enclosed(grid, v) ==
  /\ VoxelAt(grid, v[1] - 1, v[2], v[3]) # 0
  /\ VoxelAt(grid, v[1] + 1, v[2], v[3]) # 0
  /\ VoxelAt(grid, v[1], v[2] - 1, v[3]) # 0
  /\ VoxelAt(grid, v[1], v[2] + 1, v[3]) # 0
  /\ VoxelAt(grid, v[1], v[2], v[3] - 1) # 0
  /\ VoxelAt(grid, v[1], v[2], v[3] + 1) # 0

\* C14: with culling enabled, a decoded voxel is omitted from the sparse list
\* if and only if, in the dense grid populated from the whole decoded list,
\* it is strictly interior on all three axes and its six face-adjacent cells
\* are non-zero, whatever the order of the records.
C14_HiddenIffEnclosedInFullGrid ==
  (Succeeded /\ remove_hidden_voxels_ /\ load_sparse_ /\ loads = 1
     /\ path \in LaidOut) =>
    \A i \in DOMAIN sparse_models_ :
      \E lists \in {VoxelLists(path)} :
        \E full \in {Rebuilt(ZeroGrid(sparse_models_[i].size), lists[i], 1)} :
          Range(sparse_models_[i].voxels) =
            {v \in Range(lists[i]) :
               ~(Interior(v, full.size) /\ Enclosed(full, v))}
\* C15: with culling, after an XYZI chunk is processed each decoded voxel is
\* either in the sparse list with its dense cell as the voxel loop left it,
\* or absent from the sparse list with its dense cell 0; and culling changes
\* no dense cell other than those of the omitted voxels.
C15_KeptOrZeroed ==
  [][(XyziReturns /\ remove_hidden_voxels_ /\ load_dense_ /\ load_sparse_) =>
       \E read \in {Decoded} :
         /\ \A i \in DOMAIN read.voxels :
              \E v \in {read.voxels[i]} :
                IF v \in Range(NewSparse.voxels)
                THEN VoxelAt(NewDense, v[1], v[2], v[3])
                       = VoxelAt(read.dense, v[1], v[2], v[3])
                ELSE VoxelAt(NewDense, v[1], v[2], v[3]) = 0
         /\ \A c \in DOMAIN NewDense.voxels :
              NewDense.voxels[c] # read.dense.voxels[c] =>
                \E i \in DOMAIN read.voxels :
                  /\ read.voxels[i] \notin Range(NewSparse.voxels)
                  /\ c = 1 + CellIndex(cur_size_, read.voxels[i][1],
                                       read.voxels[i][2], read.voxels[i][3])]_vars

\* C15, witness: a Load with culling has returned the full 3 x 3 x 3 box
\* with its centre voxel omitted from the sparse list and zeroed in the
\* dense grid, the other 26 cells keeping their colour.
C15_Witness ==
  /\ Succeeded /\ remove_hidden_voxels_ /\ load_dense_ /\ load_sparse_
  /\ path = 11
  /\ Len(ProducedSeq(sparse_models_)[1].voxels) = 26
  /\ <<1, 1, 1, 7>> \notin Range(ProducedSeq(sparse_models_)[1].voxels)
  /\ dense_models_[Len(dense_models_)].voxels
       = [c \in 1 .. 27 |-> IF c = 14 THEN 0 ELSE 7]
Max(S) == CHOOSE x \in S : \A y \in S : y <= x

\* the sizes of the models of the last Load, in the order they were appended
ModelSizes ==
  IF load_dense_
  THEN [i \in DOMAIN dense_models_ |-> dense_models_[i].size]
  ELSE [i \in DOMAIN ProducedSeq(sparse_models_) |->
          ProducedSeq(sparse_models_)[i].size]

\* the SIZE chunks before the k-th chunk
SizesBefore(chunks, k) == {s \in 1 .. k - 1 : chunks[s].tag = "SIZE"}

\* the SIZE chunks before the k-th chunk with no XYZI chunk in between
UnusedBefore(chunks, k) ==
  {s \in SizesBefore(chunks, k) : \A j \in s + 1 .. k - 1 : ~IsXyzi(chunks[j])}

\* the k-th chunk is the n-th XYZI chunk
XyziOrdinal(chunks, k) == Cardinality({j \in 1 .. k : IsXyzi(chunks[j])})

\* C16: a pending Size set by a SIZE chunk is used by exactly one XYZI chunk,
\* the next one encountered: an XYZI chunk takes the size of the last SIZE
\* chunk since the XYZI chunk before it (a later SIZE chunk replacing an
\* unused earlier one), and an XYZI chunk with no SIZE chunk since the XYZI
\* chunk before it does not build its model from the size that one used.
C16_SizeUsedOnce ==
  (Succeeded /\ loads = 1 /\ path \in LaidOut /\ (load_dense_ \/ load_sparse_)) =>
    \E chunks \in {Layouts[path]} :
      \A k \in DOMAIN chunks :
        IsXyzi(chunks[k]) =>
          \E size \in {ModelSizes[XyziOrdinal(chunks, k)]} :
            IF UnusedBefore(chunks, k) # {}
            THEN size = chunks[Max(UnusedBefore(chunks, k))].size
            ELSE SizesBefore(chunks, k) # {} =>
                   size # chunks[Max(SizesBefore(chunks, k))].size
\* the XYZI chunks of the file at p that no SIZE chunk precedes, by ordinal
Sizeless(p) ==
  {XyziOrdinal(Layouts[p], k) :
     k \in {j \in DOMAIN Layouts[p] :
              IsXyzi(Layouts[p][j]) /\ SizesBefore(Layouts[p], j) = {}}}

\* C17: a Load of a file with an XYZI chunk that no SIZE chunk precedes does
\* not fail and builds that chunk's model with size {0,0,0}, for any number
\* of voxels in the chunk, also when the instance has loaded a file before.
C17_NoSizeGivesEmptyModel ==
  (pc = "idle" /\ loads > 0 /\ path \in LaidOut /\ Sizeless(path) # {}) =>
    /\ Succeeded
    /\ \A n \in Sizeless(path) \cap DOMAIN ModelSizes :
         ModelSizes[n] = <<0, 0, 0>>
\* the 32-bit number stored at offset off of the file at p
DeclaredAt(p, off) ==
  le_u32read(p, [pos |-> Wide(off), fail |-> FALSE], NoDraw).val

\* contents_start + contents_size + children_size of the chunk Load calls
\* ReadChunk on: its header lies at offsets 8 .. 19 of the file
RootChunkEnd(p) ==
  U32(WAdd(WAdd(Wide(20), DeclaredAt(p, 12)), DeclaredAt(p, 16)))

\* C18: after ReadChunk has processed a chunk, recognised or not, the cursor
\* is at contents_start + contents_size + children_size, whatever number of
\* bytes the chunk's handler consumed.  Stated for the chunk at the root of
\* a file that holds the whole header of that chunk.
C18_CursorAfterChunk ==
  (pc = "stamp" /\ FileSize(path) >= 20) => tellg(file) = RootChunkEnd(path)
\* this step is a ReadChunk call that returns, on a chunk whose id is none of
\* those ReadChunk dispatches on
OtherReturns ==
  /\ CanCall
  /\ calls' # calls
  /\ pc' # "idle"
  /\ Header(buffers').chunk_id \notin {MAIN, SIZE, XYZI, RGBA}

\* C19: processing a chunk whose tag is not MAIN, SIZE, XYZI or RGBA leaves
\* the pending size, the palette and both model collections unchanged, and
\* (its header being in the file) leaves the cursor after its children
\* region, so that chunks inside that region are not processed either.
C19_UnknownChunkChangesNothing ==
  [][OtherReturns =>
       /\ cur_size_' = cur_size_
       /\ palette_' = palette_
       /\ dense_models_' = dense_models_
       /\ sparse_models_' = sparse_models_
       /\ (~file.fail /\ Num(file.pos) + 12 <= FileSize(path)) =>
            tellg(file') =
              U32(WAdd(WAdd(WAdd(file.pos, Wide(12)),
                            DeclaredAt(path, Num(file.pos) + 4)),
                       DeclaredAt(path, Num(file.pos) + 8)))]_vars

\* C19, witness: the Load of file 15 has passed its PACK chunk, whose
\* children region holds a SIZE and an XYZI chunk: the cursor is after that
\* region, the size is still the one the chunk before it used and one model
\* has been built.
C19_Witness ==
  /\ pc = "loop" /\ path = 15 /\ load_dense_ /\ load_sparse_
  /\ file = [pos |-> Wide(1184), fail |-> FALSE]
  /\ cur_size_ = <<1, 1, 1>>
  /\ palette_[1] = FileColor(0)
  /\ Len(dense_models_) = 1
  /\ BuiltHere(sparse_models_) = 1
\* this step is a ReadChunk call on an RGBA chunk that returns
RgbaReturns ==
  /\ CanCall
  /\ calls' # calls
  /\ pc' # "idle"
  /\ Header(buffers').chunk_id = RGBA

\* the offset of the contents of the chunk that call is made on
ContentsStart == Num(Header(buffers').f.pos)

\* the file holds the 255 records ReadRgbaChunk reads
RecordsInFile ==
  /\ ~Header(buffers').f.fail
  /\ ContentsStart + 4 * 255 <= FileSize(path)

\* C20: processing an RGBA chunk sets palette index i to the (i-1)-th 4-byte
\* record of the chunk (r, g, b, a in that order) for every i in 1 .. 255,
\* ignores the 256th record and leaves index 0 as it was; no other step
\* changes the palette, so that the last RGBA chunk determines 1 .. 255.
C20_PaletteFromRecords ==
  [][/\ (RgbaReturns /\ RecordsInFile) =>
          palette_' = [i \in 0 .. 255 |->
                         IF i = 0 THEN palette_[0]
                         ELSE [c \in 1 .. 4 |->
                                 disk[path][ContentsStart + 4 * (i - 1) + c]]]
     /\ ~RgbaReturns => palette_' = palette_]_vars

\* C20, witness: a Load of file 15, which has two RGBA chunks, has returned
\* with the colours of the second chunk at indices 1 .. 255 and the
\* constructor's colour at index 0.
C20_Witness ==
  /\ Succeeded /\ path = 15
  /\ palette_[0] = kDefaultPalette[0]
  /\ \A i \in 1 .. 255 : palette_[i] = FileColor2(i - 1)
\* this step is a ReadChunk call made by the loop of ReadMainChunk, on a
\* chunk that is not itself a MAIN chunk, and the call returns
ChildReturns ==
  /\ pc = "loop"
  /\ MoreChildren
  /\ calls' # calls
  /\ pc' # "idle"
  /\ Header(buffers').chunk_id # MAIN

\* C21: with the offsets computed modulo 2^32, every ReadChunk call made in
\* the child loop of a MAIN chunk leaves the cursor strictly after the
\* position where that child's header began, whatever contents_size and
\* children_size the child declares (no read having failed).
C21_ChildCallAdvances ==
  [][(ChildReturns /\ ~file'.fail) => WLess(file.pos, file'.pos)]_vars
====
